---- MODULE Spec2Model ----
(***************************************************************************)
(* Kyoko swap bot (src/p.py): the numeric normaliser, the revert-reason    *)
(* decoder, the descriptor normaliser, simulate-then-estimate, the gas and *)
(* fee decisions of execute_swap, and the driver loop run_swap_bot_cli.    *)
(*                                                                         *)
(* Python strings are sequences of one-character strings, byte strings are *)
(* sequences of 0..255, Python values are records tagged with their type.  *)
(***************************************************************************)
EXTENDS Integers, Sequences, FiniteSets, TLC

VARIABLES
    pc,             \* position of run_swap_bot_cli / execute_swap
    DRY_RUN,        \* self.DRY_RUN
    loop_count,     \* loop_count read at the prompt
    i,              \* loop variable of run_swap_bot_cli
    successful,     \* successful counter of run_swap_bot_cli
    raw_tx,         \* txs[0] of the quote of the current attempt
    tx_info,        \* prepare_tx_from_kyoko_txdata(raw_tx)
    max_fee,        \* execute_swap locals
    max_priority,
    gas_price,
    est_gas,
    revert_reason,
    gas_to_use,
    tx_final,
    ok,             \* value returned by execute_swap
    trace,          \* node / signer calls made by the current attempt, in order
    blocks_seen,    \* what get_block answered during the current attempt
    chainNonce,     \* the node's transaction count of the account
    call_fn,        \* function-level specifications: the function applied,
    call_args,      \*   its arguments,
    call_result     \*   and what it returned

vars == <<pc, DRY_RUN, loop_count, i, successful, raw_tx, tx_info, max_fee,
          max_priority, gas_price, est_gas, revert_reason, gas_to_use, tx_final,
          ok, trace, blocks_seen, chainNonce, call_fn, call_args, call_result>>

botVars == <<pc, DRY_RUN, loop_count, i, successful, raw_tx, tx_info, max_fee,
             max_priority, gas_price, est_gas, revert_reason, gas_to_use,
             tx_final, ok, trace, blocks_seen, chainNonce>>

\* Python values: None, an int, a str, or a value of another type (a float, a list)
None == [t |-> "none"]

(***************************************************************************)
(* Sequence helpers (Python slicing and str methods).                      *)
(***************************************************************************)
Min(a, b) == IF a <= b THEN a ELSE b

Max(a, b) == IF a >= b THEN a ELSE b

\* s[:n]
Take(s, n) == SubSeq(s, 1, Min(n, Len(s)))

\* s[n:]
Drop(s, n) == SubSeq(s, Min(n, Len(s)) + 1, Len(s))

\* s[a:b]
Slice(s, a, b) == SubSeq(s, Min(a, Len(s)) + 1, Min(b, Len(s)))

\* s.startswith(p)
StartsWith(s, p) == Len(s) >= Len(p) /\ SubSeq(s, 1, Len(p)) = p

IsSpace(c) == c = " "

RECURSIVE LStrip(_)
LStrip(s) == IF s # <<>> /\ IsSpace(Head(s)) THEN LStrip(Tail(s)) ELSE s

RECURSIVE RStrip(_)
RStrip(s) ==
    IF s # <<>> /\ IsSpace(s[Len(s)]) THEN RStrip(SubSeq(s, 1, Len(s) - 1)) ELSE s

\* str.strip()
Strip(s) == RStrip(LStrip(s))

(***************************************************************************)
(* Digits.                                                                 *)
(***************************************************************************)
DecDigits == <<"0", "1", "2", "3", "4", "5", "6", "7", "8", "9">>

LowerHex == <<"a", "b", "c", "d", "e", "f">>

UpperHex == <<"A", "B", "C", "D", "E", "F">>

IsDecDigit(c) == \E k \in 1..10 : DecDigits[k] = c

IsHexDigit(c) ==
    \/ IsDecDigit(c)
    \/ \E k \in 1..6 : LowerHex[k] = c \/ UpperHex[k] = c

DigitVal(c) ==
    IF IsDecDigit(c)
    THEN (CHOOSE k \in 1..10 : DecDigits[k] = c) - 1
    ELSE 9 + (CHOOSE k \in 1..6 : LowerHex[k] = c \/ UpperHex[k] = c)

RECURSIVE DigitsToInt(_, _, _)
DigitsToInt(s, base, acc) ==
    IF s = <<>> THEN acc
    ELSE DigitsToInt(Tail(s), base, acc * base + DigitVal(Head(s)))

AllDec(s) == s # <<>> /\ \A k \in 1..Len(s) : IsDecDigit(s[k])

AllHex(s) == s # <<>> /\ \A k \in 1..Len(s) : IsHexDigit(s[k])

(***************************************************************************)
(* Results of a call that may raise.                                       *)
(***************************************************************************)
Raised == [raised |-> TRUE]

Ret(v) == [raised |-> FALSE, val |-> v]

\* a function of a function-level specification that was not applied yet
NotCalled == [raised |-> FALSE, pending |-> TRUE]

PyInt(n) == [t |-> "int", v |-> n]

PyStr(s) == [t |-> "str", s |-> s]

PyOther == [t |-> "other"]

\* Python truthiness
Truthy(x) ==
    IF x.t = "none" THEN FALSE
    ELSE IF x.t = "int" THEN x.v # 0
    ELSE IF x.t = "str" THEN x.s # <<>>
    ELSE TRUE

\* a or b
Or(a, b) == IF Truthy(a) THEN a ELSE b

\* int(x) for a decimal string: optional sign, then digits
IntDec(s) ==
    LET body == IF s # <<>> /\ Head(s) \in {"+", "-"} THEN Tail(s) ELSE s
    IN  IF ~AllDec(body) THEN Raised
        ELSE IF s # <<>> /\ Head(s) = "-" THEN Ret(0 - DigitsToInt(body, 10, 0))
        ELSE Ret(DigitsToInt(body, 10, 0))

\* int(x, 16) for a string that starts with 0x or 0X
IntHex(s) ==
    LET body == Drop(s, 2)
    IN  IF AllHex(body) THEN Ret(DigitsToInt(body, 16, 0)) ELSE Raised

\* hex_or_int_to_int: ValueError is Raised
hex_or_int_to_int(x) ==
    IF x.t = "int" THEN Ret(x.v)
    ELSE IF x.t = "str"
    THEN LET s == Strip(x.s)
         IN  IF StartsWith(s, <<"0", "x">>) \/ StartsWith(s, <<"0", "X">>)
             THEN IntHex(s)
             ELSE IntDec(s)
    ELSE Raised

(***************************************************************************)
(* decode_revert_reason.                                                   *)
(***************************************************************************)
\* bytes.fromhex: an odd number of digits or a non-hex character raises
RECURSIVE HexPairs(_)
HexPairs(s) ==
    IF s = <<>> THEN <<>>
    ELSE <<16 * DigitVal(s[1]) + DigitVal(s[2])>> \o HexPairs(Drop(s, 2))

FromHex(s) ==
    IF s = <<>> THEN Ret(<<>>)
    ELSE IF AllHex(s) /\ Len(s) % 2 = 0 THEN Ret(HexPairs(s))
    ELSE Raised

\* the Error(string) selector 08c379a0, as bytes
ErrorSelector == <<8, 195, 121, 160>>

\* int.from_bytes(w, "big"); a value of 2^24 or more is reported as 2^24, which is
\* beyond the length of every byte string and slices the same
LenCap == 256 * 256 * 256

IntFromBytes(w) ==
    LET n == Len(w)
        high == { k \in 1..n : k <= n - 3 /\ w[k] # 0 }
        b(k) == IF k >= 1 THEN w[k] ELSE 0
    IN  IF high # {} THEN LenCap
        ELSE b(n - 2) * 65536 + b(n - 1) * 256 + b(n)

\* bytes.decode(errors="replace") on single-byte characters: the printable ASCII
\* letters used here map to themselves, a byte of 128 or more to U+FFFD
AsciiLower == <<"a", "b", "c", "d", "e", "f", "g", "h", "i", "j", "k", "l", "m",
                "n", "o", "p", "q", "r", "s", "t", "u", "v", "w", "x", "y", "z">>

Chr(b) ==
    IF b >= 97 /\ b <= 122 THEN AsciiLower[b - 96]
    ELSE IF b = 32 THEN " "
    ELSE IF b >= 128 THEN "U+FFFD"
    ELSE "\\x"

DecodeBytes(bs) == [k \in 1..Len(bs) |-> Chr(bs[k])]

\* the result is a str, given as its characters; "" is <<>>
decode_revert_reason(data_hex) ==
    IF ~Truthy(data_hex) \/ data_hex.t # "str" THEN <<>>
    ELSE LET h == IF StartsWith(data_hex.s, <<"0", "x">>) THEN Drop(data_hex.s, 2)
                  ELSE data_hex.s
             r == FromHex(h)
         IN  IF r.raised THEN <<>>
             ELSE LET b == r.val
                  IN  IF Len(b) < 4 THEN <<>>
                      ELSE IF Take(b, 4) # ErrorSelector THEN <<>>
                      ELSE IF Len(b) < 4 + 32 + 32 THEN <<>>
                      ELSE LET str_len == IntFromBytes(Slice(b, 4 + 32, 4 + 32 + 32))
                               reason_bytes == Slice(b, 4 + 32 + 32, 4 + 32 + 32 + str_len)
                           IN  DecodeBytes(reason_bytes)

(***************************************************************************)
(* prepare_tx_from_kyoko_txdata. A descriptor is a function from its keys  *)
(* to Python values; a key that is missing reads as None (dict.get).       *)
(***************************************************************************)
DescriptorKeys ==
    {"to", "to_address", "toAddress", "input", "calldata", "data", "value", "gas",
     "maxFeePerGas", "max_fee_per_gas", "maxPriorityFeePerGas",
     "max_priority_fee_per_gas", "gasPrice", "gas_price"}

EmptyDescriptor == [k \in DescriptorKeys |-> None]

\* the int a conversion returned, or the default when it raised
IntOr(r, default) == IF r.raised THEN default ELSE PyInt(r.val)

\* lines 183-194: the three conversions share one try block, so the first one that
\* raises leaves the later fields at None
FeeFields(mf, mp, gp) ==
    LET r1 == IF Truthy(mf) THEN hex_or_int_to_int(mf) ELSE Raised
        r2 == IF Truthy(mp) THEN hex_or_int_to_int(mp) ELSE Raised
        r3 == IF Truthy(gp) THEN hex_or_int_to_int(gp) ELSE Raised
        stop1 == Truthy(mf) /\ r1.raised
        stop2 == stop1 \/ (Truthy(mp) /\ r2.raised)
    IN  [maxFeePerGas |-> IF Truthy(mf) THEN IntOr(r1, None) ELSE None,
         maxPriorityFeePerGas |->
             IF ~stop1 /\ Truthy(mp) THEN IntOr(r2, None) ELSE None,
         gasPrice |-> IF ~stop2 /\ Truthy(gp) THEN IntOr(r3, None) ELSE None]

\* line 160 with the keys tried in another order
DestinationLastFirst(tx_data) ==
    Or(Or(tx_data["toAddress"], tx_data["to_address"]), tx_data["to"])

\* line 160
Destination(tx_data) ==
    Or(Or(tx_data["to"], tx_data["to_address"]), tx_data["toAddress"])

prepare_tx_from_kyoko_txdata(tx_data) ==
    LET to_address == Destination(tx_data)
        calldata == Or(Or(Or(tx_data["input"], tx_data["calldata"]), tx_data["data"]),
                       PyStr(<<"0", "x">>))
        value == IF tx_data["value"] = None THEN PyInt(0) ELSE tx_data["value"]
        gas == tx_data["gas"]
        max_fee_raw == Or(tx_data["maxFeePerGas"], tx_data["max_fee_per_gas"])
        max_priority_raw ==
            Or(tx_data["maxPriorityFeePerGas"], tx_data["max_priority_fee_per_gas"])
        gas_price_raw == Or(tx_data["gasPrice"], tx_data["gas_price"])
        value_int == IntOr(hex_or_int_to_int(value), PyInt(0))
        gas_int == IF gas # None THEN IntOr(hex_or_int_to_int(gas), None) ELSE None
        fees == FeeFields(max_fee_raw, max_priority_raw, gas_price_raw)
    IN  [to |-> to_address,
         data |-> calldata,
         value |-> value_int,
         gas |-> gas_int,
         maxFeePerGas |-> fees.maxFeePerGas,
         maxPriorityFeePerGas |-> fees.maxPriorityFeePerGas,
         gasPrice |-> fees.gasPrice]

(***************************************************************************)
(* simulate_call_and_estimate. An exception message is the sequence of its *)
(* whitespace-separated parts (msg.split()); str(exc) joins them with one  *)
(* space.                                                                  *)
(***************************************************************************)
RECURSIVE Join(_)
Join(parts) ==
    IF parts = <<>> THEN <<>>
    ELSE IF Len(parts) = 1 THEN parts[1]
    ELSE parts[1] \o <<" ">> \o Join(Tail(parts))

EndsWith(s, p) == Len(s) >= Len(p) /\ SubSeq(s, Len(s) - Len(p) + 1, Len(s)) = p

WExecution == <<"e", "x", "e", "c", "u", "t", "i", "o", "n">>

WReverted == <<"r", "e", "v", "e", "r", "t", "e", "d">>

\* the places where "execution reverted" occurs in the message
RevertedAt(parts) ==
    { k \in 1..(Len(parts) - 1) :
        EndsWith(parts[k], WExecution) /\ StartsWith(parts[k + 1], WReverted) }

\* "execution reverted" in msg
HasReverted(parts) == RevertedAt(parts) # {}

\* msg[msg.find("execution reverted"):]
FromReverted(parts) ==
    LET k == CHOOSE j \in RevertedAt(parts) : \A m \in RevertedAt(parts) : j <= m
    IN  Join(<<WExecution>> \o SubSeq(parts, k + 1, Len(parts)))

\* the loop over msg.split(): the first non-empty decode_revert_reason of a part
\* that starts with 0x and is longer than 10 characters, "" when there is none
RECURSIVE FirstDecoded(_)
FirstDecoded(parts) ==
    IF parts = <<>> THEN <<>>
    ELSE LET part == Head(parts)
             reason == IF StartsWith(part, <<"0", "x">>) /\ Len(part) > 10
                       THEN decode_revert_reason(PyStr(part))
                       ELSE <<>>
         IN  IF reason # <<>> THEN reason ELSE FirstDecoded(Tail(parts))

\* lines 220-241: revert_reason after eth_call, which returned or raised call_exc
AfterCall(callResp) ==
    IF ~callResp.raised THEN <<>>
    ELSE LET msg == callResp.msg
             reason == FirstDecoded(msg)
         IN  IF reason # <<>> THEN reason
             ELSE IF HasReverted(msg) THEN FromReverted(msg)
             ELSE Join(msg)

\* lines 247-258 with the estimation's reason stored unconditionally
AfterEstimateOverwrites(stored, estResp) ==
    IF ~estResp.raised THEN stored
    ELSE LET est_msg == estResp.msg
             reason == FirstDecoded(est_msg)
         IN  IF reason # <<>> THEN reason
             ELSE IF HasReverted(est_msg) THEN Join(est_msg)
             ELSE stored

\* lines 243-258: revert_reason after estimate_gas, which returned or raised est_exc
AfterEstimate(stored, estResp) ==
    IF ~estResp.raised THEN stored
    ELSE LET est_msg == estResp.msg
             reason == FirstDecoded(est_msg)
             r1 == IF reason # <<>> THEN (IF stored # <<>> THEN stored ELSE reason)
                   ELSE stored
         IN  IF r1 = <<>> /\ HasReverted(est_msg) THEN Join(est_msg) ELSE r1

\* lines 244-246: estimated_gas
EstimatedGas(estResp) == IF estResp.raised THEN None ELSE PyInt(estResp.val)

(***************************************************************************)
(* The gas decision of execute_swap, lines 335-349.                        *)
(* GAS_BUFFER_MULTIPLIER is the ratio num/den; int(x * 1.2) is x * 6 \div 5 *)
(* for every x below 2^50, and likewise for 1.0, 1.5 and 2.0.              *)
(***************************************************************************)
DefaultBufferNum == 6

DefaultBufferDen == 5

\* int(x * multiplier) with the product rounded up
BufferedCeil(x, num, den) == (x * num + den - 1) \div den

\* int(x * self.GAS_BUFFER_MULTIPLIER)
Buffered(x, num, den) == (x * num) \div den

\* tx_info["gas"] or 0
GasFromApi(gas) == IF Truthy(gas) THEN gas.v ELSE 0

\* the gas decision with no abort: a missing hint counts as 0
GasDecisionNoAbort(gas, est, num, den) ==
    LET gas_from_api == GasFromApi(gas)
    IN  IF Truthy(est) THEN PyInt(Buffered(Max(gas_from_api, est.v), num, den))
        ELSE PyInt(Buffered(gas_from_api, num, den))

\* gas_to_use, or None where execute_swap returns False
GasDecision(gas, est, num, den) ==
    LET gas_from_api == GasFromApi(gas)
    IN  IF Truthy(est) THEN PyInt(Buffered(Max(gas_from_api, est.v), num, den))
        ELSE IF gas_from_api # 0 /\ gas_from_api > 0
        THEN PyInt(Buffered(gas_from_api, num, den))
        ELSE None

(***************************************************************************)
(* Encoders used to build inputs: hex text, ABI words, Error(string).       *)
(***************************************************************************)
HexDigitsSeq == DecDigits \o LowerHex

RECURSIVE ToHex(_)
ToHex(bs) ==
    IF bs = <<>> THEN <<>>
    ELSE <<HexDigitsSeq[(Head(bs) \div 16) + 1], HexDigitsSeq[(Head(bs) % 16) + 1]>>
         \o ToHex(Tail(bs))

Zeros(n) == [k \in 1..n |-> 0]

\* a 32-byte big-endian word
Word(n) == Zeros(30) \o <<n \div 256, n % 256>>

\* selector, offset word, length word, string bytes
ErrorPayload(declared, strBytes) ==
    ErrorSelector \o Word(32) \o Word(declared) \o strBytes

\* addresses are named by one letter; "?" is a string that is no address
AddrA == PyStr(<<"A">>)

AddrB == PyStr(<<"B">>)

AddrC == PyStr(<<"C">>)

AddrBad == PyStr(<<"?">>)

(***************************************************************************)
(* The node, the quoting service and the signer answer each call with a    *)
(* value or by raising; the answers are drawn anew at every call.          *)
(***************************************************************************)
MaxLoops == 2

\* the transaction count up to which transactions signed elsewhere are followed
MaxNonce == 2

GWEI == 1000000000

Absent == [t |-> "absent"]

Block(base) == [baseFeePerGas |-> base]

NoBlocks == [pending |-> {}, latest |-> {}]

\* get_block: raises, or a block without baseFeePerGas, with None, or with a value
BlockResps == {Raised} \cup { Ret(Block(b)) : b \in {Absent, None, PyInt(7)} }

GasPriceResps == {Raised, Ret(5)}

RaisedMsg(parts) == [raised |-> TRUE, msg |-> parts]

\* Error(string) payload of "no", as a message part
PayloadNo == <<"0", "x">> \o ToHex(ErrorPayload(2, <<110, 111>>))

\* Error(string) payload of "on", as a message part
PayloadOn == <<"0", "x">> \o ToHex(ErrorPayload(2, <<111, 110>>))

WOops == <<"o", "o", "p", "s">>

\* exception messages: empty, plain text, "execution reverted", revert data
CallMsgs ==
    { <<>>, <<WOops>>, <<WOops, WExecution, WReverted>>, <<WOops, PayloadNo>> }

EstMsgs ==
    { <<WOops>>, <<WExecution, WReverted, WOops>>, <<WOops, PayloadOn>> }

CallResps == {Ret(0)} \cup { RaisedMsg(m) : m \in CallMsgs }

EstResps == {Ret(0), Ret(1), Ret(4)} \cup { RaisedMsg(m) : m \in EstMsgs }

Calls(tr) == { tr[k] : k \in 1..Len(tr) }

\* Web3.to_checksum_address accepts the string
IsAddress(a) == a \in {AddrA, AddrB, AddrC}

\* "baseFeePerGas" in blk and blk["baseFeePerGas"] is not None
HasBaseFee(blk) == blk.baseFeePerGas.t \notin {"absent", "none"}

\* blk.get("baseFeePerGas", default)
GetBaseFee(blk, default) ==
    IF blk.baseFeePerGas = Absent THEN default ELSE blk.baseFeePerGas

\* supports_eip1559, given what get_block("pending") and get_block("latest") answer
supports_eip1559(p, l) ==
    IF ~p.raised THEN HasBaseFee(p.val)
    ELSE IF ~l.raised THEN HasBaseFee(l.val)
    ELSE FALSE

\* the calls supports_eip1559 makes
SupportsCalls(p, l) ==
    <<"get_block_pending">> \o (IF p.raised THEN <<"get_block_latest">> ELSE <<>>)

\* blocks_seen after supports_eip1559
SupportsSeen(seen, p, l) ==
    [pending |-> seen.pending \cup {p},
     latest |-> IF p.raised THEN seen.latest \cup {l} ELSE seen.latest]

\* blocks_seen after get_block("pending")
PendingSeen(seen, p) == [seen EXCEPT !.pending = @ \cup {p}]

\* the answers that matter: latest is asked only when pending raised
ProbePairs == { pl \in BlockResps \X BlockResps : ~pl[1].raised => pl[2] = Raised }

(***************************************************************************)
(* Descriptors the quoting service may return.                             *)
(***************************************************************************)
\* destination and gas hint vary; the fee is a gasPrice
DestinationDescriptors ==
    { [EmptyDescriptor EXCEPT
         !["to"] = t1, !["to_address"] = t2, !["toAddress"] = t3,
         !["gas"] = g, !["gasPrice"] = PyInt(3)] :
        t1 \in {None, PyStr(<<>>), AddrA}, t2 \in {None, AddrB},
        t3 \in {None, AddrC, AddrBad},
        g \in {None, PyInt(3), PyStr(<<"z", "z">>)} }

\* fee fields vary: both EIP-1559 values, with and without a gasPrice; none; only
\* maxFeePerGas; a maxFeePerGas that is no number beside the other two
FeeChoices ==
    { <<PyInt(4), PyInt(2), None>>, <<PyInt(4), PyInt(2), PyInt(3)>>,
      <<None, None, None>>, <<PyInt(4), None, None>>,
      <<PyStr(<<"z", "z">>), PyInt(2), PyInt(3)>> }

FeeDescriptors ==
    { [EmptyDescriptor EXCEPT
         !["to"] = AddrA, !["gas"] = PyInt(3), !["maxFeePerGas"] = f[1],
         !["maxPriorityFeePerGas"] = f[2], !["gasPrice"] = f[3]] :
        f \in FeeChoices }

Descriptors == DestinationDescriptors \cup FeeDescriptors

\* the quote: the request failed, no transactions in it, or a first descriptor
Quotes == {[kind |-> "failed"], [kind |-> "empty"]}
          \cup { [kind |-> "txs", first |-> d] : d \in Descriptors }

(***************************************************************************)
(* The bot.                                                                *)
(***************************************************************************)
locals == <<raw_tx, tx_info, max_fee, max_priority, gas_price, est_gas,
            revert_reason, gas_to_use, tx_final>>

config == <<DRY_RUN, loop_count>>

counters == <<i, successful>>

fnVars == <<call_fn, call_args, call_result>>

Init ==
    /\ pc = "start"
    /\ DRY_RUN \in BOOLEAN
    /\ loop_count = 0
    /\ i = 0
    /\ successful = 0
    /\ raw_tx = None
    /\ tx_info = None
    /\ max_fee = None
    /\ max_priority = None
    /\ gas_price = None
    /\ est_gas = None
    /\ revert_reason = <<>>
    /\ gas_to_use = None
    /\ tx_final = None
    /\ ok = FALSE
    /\ trace = <<>>
    /\ blocks_seen = NoBlocks
    /\ chainNonce = 0
    /\ call_fn = "none"
    /\ call_args = None
    /\ call_result = NotCalled

\* run_swap_bot_cli, lines 437-488: balances, the prompts, the confirmation
Configure ==
    /\ pc = "start"
    /\ \E balances \in {Raised, Ret(0), Ret(1)}, amount \in {Raised, Ret(0), Ret(1)},
          count \in {Raised} \cup { Ret(n) : n \in 0..MaxLoops },
          dr \in {"y", "n"}, confirm \in {"y", "n"} :
          IF balances.raised
          THEN /\ pc' = "exception_in_driver"
               /\ UNCHANGED <<config, counters>>
          ELSE IF \/ amount.raised
                  \/ amount.val <= 0
                  \/ amount.val > balances.val
                  \/ count.raised
                  \/ count.val <= 0
          THEN /\ pc' = "done"
               /\ UNCHANGED <<config, counters>>
          ELSE /\ DRY_RUN' = (DRY_RUN \/ dr = "y")
               /\ loop_count' = count.val
               /\ pc' = IF confirm # "y" THEN "done" ELSE "loop"
               /\ i' = 0
               /\ successful' = 0
    /\ UNCHANGED <<locals, ok, trace, blocks_seen, chainNonce, fnVars>>

\* lines 489-496: the head of the loop, up to the call of execute_swap
LoopHead ==
    /\ pc = "loop"
    /\ IF i >= loop_count
       THEN pc' = "finished"
       ELSE \E balance \in {Raised, Ret(0), Ret(1)} :
               pc' = IF balance.raised THEN "exception_in_driver"
                     ELSE IF balance.val = 0 THEN "finished"
                     ELSE "quote"
    /\ UNCHANGED <<locals, trace, blocks_seen, config, counters, ok, chainNonce, fnVars>>

\* execute_swap, lines 265-301: the quote, its first descriptor, the destination
GetQuote ==
    /\ pc = "quote"
    /\ \E quote \in Quotes :
          IF quote.kind # "txs"
          THEN /\ pc' = "returned"
               /\ ok' = FALSE
               /\ UNCHANGED locals
          ELSE LET info == prepare_tx_from_kyoko_txdata(quote.first)
               IN  /\ raw_tx' = quote.first
                   /\ tx_info' = info
                   /\ max_fee' = info.maxFeePerGas
                   /\ max_priority' = info.maxPriorityFeePerGas
                   /\ gas_price' = info.gasPrice
                   /\ UNCHANGED <<est_gas, revert_reason, gas_to_use, tx_final>>
                   /\ IF ~Truthy(info.to)
                      THEN pc' = "returned" /\ ok' = FALSE
                      ELSE pc' = "fees" /\ ok' = ok
    /\ UNCHANGED <<config, counters, trace, blocks_seen, chainNonce, fnVars>>

\* lines 303-324: fee values derived from the chain when the descriptor has none
FeeProbe ==
    /\ pc = "fees"
    /\ IF (Truthy(max_fee) /\ Truthy(max_priority)) \/ Truthy(gas_price)
       THEN /\ pc' = "call"
            /\ UNCHANGED <<max_fee, max_priority, gas_price, trace, blocks_seen>>
       ELSE \E pl \in ProbePairs :
               IF supports_eip1559(pl[1], pl[2])
               THEN \E pending \in BlockResps :
                       LET base == IF pending.raised THEN None
                                   ELSE GetBaseFee(pending.val, None)
                       IN  /\ max_priority' =
                                 IF Truthy(base) THEN PyInt(GWEI) ELSE max_priority
                           /\ max_fee' =
                                 IF Truthy(base) THEN PyInt(base.v * 2 + GWEI)
                                 ELSE max_fee
                           /\ gas_price' = gas_price
                           /\ trace' = trace \o SupportsCalls(pl[1], pl[2])
                                       \o <<"get_block_pending">>
                           /\ blocks_seen' =
                                 PendingSeen(SupportsSeen(blocks_seen, pl[1], pl[2]),
                                             pending)
                           /\ pc' = "call"
               ELSE \E price \in GasPriceResps :
                       /\ trace' = trace \o SupportsCalls(pl[1], pl[2])
                                   \o <<"gas_price">>
                       /\ blocks_seen' = SupportsSeen(blocks_seen, pl[1], pl[2])
                       /\ gas_price' = IF price.raised THEN gas_price
                                       ELSE PyInt(price.val)
                       /\ pc' = IF price.raised THEN "exception_in_execute_swap"
                                ELSE "call"
                       /\ UNCHANGED <<max_fee, max_priority>>
    /\ UNCHANGED <<raw_tx, tx_info, est_gas, revert_reason, gas_to_use, tx_final,
                   config, counters, ok, chainNonce, fnVars>>

\* lines 327-331 and 211-241: the template, then eth_call
EthCall ==
    /\ pc = "call"
    /\ IF ~IsAddress(tx_info.to)
       THEN /\ pc' = "exception_in_execute_swap"
            /\ UNCHANGED <<revert_reason, trace>>
       ELSE \E callResp \in CallResps :
               /\ revert_reason' = AfterCall(callResp)
               /\ trace' = Append(trace, "eth_call")
               /\ pc' = "estimate"
    /\ UNCHANGED <<raw_tx, tx_info, max_fee, max_priority, gas_price, est_gas,
                   gas_to_use, tx_final, config, counters, ok, blocks_seen,
                   chainNonce, fnVars>>

\* lines 243-260 and 334-349: estimate_gas, then the gas decision
EstimateGas ==
    /\ pc = "estimate"
    /\ \E estResp \in EstResps :
          LET est == EstimatedGas(estResp)
              gas == GasDecision(tx_info.gas, est, DefaultBufferNum, DefaultBufferDen)
          IN  /\ est_gas' = est
              /\ revert_reason' = AfterEstimate(revert_reason, estResp)
              /\ trace' = Append(trace, "estimate_gas")
              /\ gas_to_use' = gas
              /\ IF gas = None
                 THEN pc' = "returned" /\ ok' = FALSE
                 ELSE pc' = "assemble" /\ ok' = ok
    /\ UNCHANGED <<raw_tx, tx_info, max_fee, max_priority, gas_price, tx_final,
                   config, counters, blocks_seen, chainNonce, fnVars>>

\* the nonce of the first attempt, kept for the later ones
TxFinalStaleNonce(to, value, gas, data, nonce, chainId) ==
    [to |-> to, value |-> value, gas |-> gas, data |-> data, nonce |-> PyInt(0),
     chainId |-> chainId, maxFeePerGas |-> None, maxPriorityFeePerGas |-> None,
     gasPrice |-> None, type |-> None]

\* a transaction dict: a key that is not set reads as None
TxFinal(to, value, gas, data, nonce, chainId) ==
    [to |-> to, value |-> value, gas |-> gas, data |-> data, nonce |-> nonce,
     chainId |-> chainId, maxFeePerGas |-> None, maxPriorityFeePerGas |-> None,
     gasPrice |-> None, type |-> None]

Eip1559(tx, maxFee, maxPriority) ==
    [tx EXCEPT !.maxFeePerGas = maxFee, !.maxPriorityFeePerGas = maxPriority,
               !.type = PyInt(2)]

Legacy(tx, price) == [tx EXCEPT !.gasPrice = price, !.type = PyInt(0)]

\* lines 362-387: the fee fields of tx_final, given the answers of the node;
\* raised when w3.eth.gas_price raises, outside a try block or inside the handler
FinalFees(tx, maxFee, maxPriority, gasPrice, seen, pl, pending, price) ==
    LET sup == supports_eip1559(pl[1], pl[2])
        seen1 == SupportsSeen(seen, pl[1], pl[2])
        seen2 == PendingSeen(seen1, pending)
        probe == SupportsCalls(pl[1], pl[2])
        viaPrice(t, calls, sn) ==
            [raised |-> price.raised,
             tx |-> IF price.raised THEN t ELSE Legacy(t, PyInt(price.val)),
             calls |-> calls \o <<"gas_price">>,
             seen |-> sn]
        base == IF pending.raised THEN None ELSE GetBaseFee(pending.val, PyInt(0))
    IN  IF Truthy(maxFee) /\ Truthy(maxPriority)
        THEN [raised |-> FALSE, tx |-> Eip1559(tx, maxFee, maxPriority),
              calls |-> <<>>, seen |-> seen]
        ELSE IF Truthy(gasPrice)
        THEN [raised |-> FALSE, tx |-> Legacy(tx, gasPrice), calls |-> <<>>,
              seen |-> seen]
        ELSE IF ~sup THEN viaPrice(tx, probe, seen1)
        ELSE IF pending.raised
        THEN viaPrice(tx, probe \o <<"get_block_pending">>, seen2)
        ELSE IF base = None
        \* line 378 has run when base * 2 raises TypeError at line 379
        THEN viaPrice([tx EXCEPT !.maxPriorityFeePerGas = PyInt(GWEI)],
                      probe \o <<"get_block_pending">>, seen2)
        ELSE [raised |-> FALSE,
              tx |-> Eip1559(tx, PyInt(base.v * 2 + GWEI), PyInt(GWEI)),
              calls |-> probe \o <<"get_block_pending">>,
              seen |-> seen2]

\* the answers FinalFees reads; the others are fixed
FeeAnswers ==
    { a \in ProbePairs \X BlockResps \X GasPriceResps :
        /\ ~supports_eip1559(a[1][1], a[1][2]) => a[2] = Raised
        /\ (supports_eip1559(a[1][1], a[1][2]) /\ ~a[2].raised
              /\ GetBaseFee(a[2].val, PyInt(0)) # None) => a[3] = Raised }

\* lines 351-387: nonce, chain id, tx_final and its fee fields
Assemble ==
    /\ pc = "assemble"
    /\ \E nonce \in {Raised, Ret(chainNonce)}, chain \in {Raised, Ret(1)} :
          IF nonce.raised
          THEN /\ pc' = "exception_in_execute_swap"
               /\ trace' = Append(trace, "get_transaction_count")
               /\ UNCHANGED <<tx_final, blocks_seen>>
          ELSE IF chain.raised
          THEN /\ pc' = "exception_in_execute_swap"
               /\ trace' = trace \o <<"get_transaction_count", "chain_id">>
               /\ UNCHANGED <<tx_final, blocks_seen>>
          ELSE \E a \in IF (Truthy(max_fee) /\ Truthy(max_priority)) \/ Truthy(gas_price)
                        THEN {<<<<Raised, Raised>>, Raised, Raised>>}
                        ELSE FeeAnswers :
                  LET tx == TxFinal(tx_info.to, tx_info.value, gas_to_use, tx_info.data,
                                    PyInt(nonce.val), PyInt(chain.val))
                      f == FinalFees(tx, max_fee, max_priority, gas_price, blocks_seen,
                                     a[1], a[2], a[3])
                  IN  /\ trace' = trace \o <<"get_transaction_count", "chain_id">>
                                       \o f.calls
                      /\ blocks_seen' = f.seen
                      /\ tx_final' = f.tx
                      /\ pc' = IF f.raised THEN "exception_in_execute_swap" ELSE "send"
    /\ UNCHANGED <<raw_tx, tx_info, max_fee, max_priority, gas_price, est_gas,
                   revert_reason, gas_to_use, config, counters, ok, chainNonce, fnVars>>

\* what signing, sending, the receipt and check_balances answer; a call that is
\* not reached is fixed at Raised
SendAnswers ==
    { a \in {Raised, Ret(0)} \X {Raised, Ret(0)} \X {Raised, Ret(0), Ret(1)}
            \X {Raised, Ret(0)} :
        /\ a[1].raised => a[2] = Raised
        /\ a[2].raised => a[3] = Raised
        /\ (a[3].raised \/ a[3] = Ret(0)) => a[4] = Raised }

\* the calls of lines 405-415 that are reached
SendCalls(a) ==
    <<"sign_transaction">>
    \o (IF a[1].raised THEN <<>> ELSE <<"send_raw_transaction">>)
    \o (IF a[1].raised \/ a[2].raised THEN <<>> ELSE <<"wait_for_transaction_receipt">>)
    \o (IF a[1].raised \/ a[2].raised \/ a[3] # Ret(1) THEN <<>> ELSE <<"get_balance">>)

\* lines 400-435: the dry-run preview, or sign, send, wait for the receipt
SendOrPreview ==
    /\ pc = "send"
    /\ IF DRY_RUN
       THEN /\ ok' = TRUE
            /\ UNCHANGED <<trace, chainNonce>>
       ELSE \E a \in SendAnswers :
               /\ trace' = trace \o SendCalls(a)
               /\ chainNonce' \in
                     IF a[1].raised \/ a[2].raised THEN {chainNonce}
                     \* no receipt in time: the transaction may still be pending,
                     \* and get_transaction_count counts the latest block only
                     ELSE IF a[3].raised THEN {chainNonce, chainNonce + 1}
                     ELSE {chainNonce + 1}
               /\ ok' = (a[3] = Ret(1) /\ ~a[4].raised)
    /\ pc' = "returned"
    /\ UNCHANGED <<locals, config, counters, blocks_seen, fnVars>>

\* lines 497-507: the result of execute_swap is counted, the loop goes on
LoopNext ==
    /\ pc = "returned"
    /\ successful' = IF ok THEN successful + 1 ELSE successful
    /\ i' = i + 1
    /\ pc' = "loop"
    /\ raw_tx' = None
    /\ tx_info' = None
    /\ max_fee' = None
    /\ max_priority' = None
    /\ gas_price' = None
    /\ est_gas' = None
    /\ revert_reason' = <<>>
    /\ gas_to_use' = None
    /\ tx_final' = None
    /\ trace' = <<>>
    /\ blocks_seen' = NoBlocks
    /\ ok' = FALSE
    /\ UNCHANGED <<config, chainNonce, fnVars>>

\* the node: between two attempts (time.sleep, lines 503 and 507) the account's
\* transaction count can rise, by a pending transaction being mined or by a
\* transaction signed elsewhere
OtherTransaction ==
    /\ pc = "loop"
    /\ i > 0
    /\ i < loop_count
    /\ chainNonce < MaxNonce
    /\ chainNonce' = chainNonce + 1
    /\ UNCHANGED <<pc, locals, config, counters, ok, trace, blocks_seen, fnVars>>

Next ==
    \/ OtherTransaction
    \/ Configure
    \/ LoopHead
    \/ GetQuote
    \/ FeeProbe
    \/ EthCall
    \/ EstimateGas
    \/ Assemble
    \/ SendOrPreview
    \/ LoopNext

Spec == Init /\ [][Next]_vars

(***************************************************************************)
(* Function-level specifications: the arguments are drawn in the initial   *)
(* state, one step applies the function. The bot stays switched off.       *)
(***************************************************************************)
BotOff ==
    /\ pc = "off"
    /\ DRY_RUN = FALSE
    /\ loop_count = 0
    /\ i = 0
    /\ successful = 0
    /\ raw_tx = None
    /\ tx_info = None
    /\ max_fee = None
    /\ max_priority = None
    /\ gas_price = None
    /\ est_gas = None
    /\ revert_reason = <<>>
    /\ gas_to_use = None
    /\ tx_final = None
    /\ ok = FALSE
    /\ trace = <<>>
    /\ blocks_seen = NoBlocks
    /\ chainNonce = 0

(***************************************************************************)
(* Inputs of decode_revert_reason: Error(string) payloads, whole and cut,  *)
(* with the declared length right or wrong, and garbage.                   *)
(***************************************************************************)
MaxReasonLen == 2

ReasonAlphabet == {110, 111, 255}

ReasonBytes == UNION { [1..n -> ReasonAlphabet] : n \in 0..MaxReasonLen }

WholePayloads ==
    { ErrorPayload(d, sb) : d \in 0..(MaxReasonLen + 1), sb \in ReasonBytes }
    \cup { ErrorSelector \o Word(32) \o (<<1>> \o Zeros(31)) \o <<110, 111>> }

CutPayloads ==
    { Take(ErrorPayload(2, <<110, 111>>), n) : n \in {0, 3, 4, 36, 67, 68, 69} }
    \cup { <<8, 195, 121, 161>> \o Drop(ErrorPayload(2, <<110, 111>>), 4) }

DecodeInputs ==
    { PyStr(<<"0", "x">> \o ToHex(b)) : b \in WholePayloads \cup CutPayloads }
    \cup { PyStr(ToHex(b)) : b \in WholePayloads \cup CutPayloads }
    \cup { PyStr(Take(ToHex(ErrorPayload(2, <<110, 111>>)), 139)),
           PyStr(<<"0", "X">> \o ToHex(ErrorPayload(2, <<110, 111>>))),
           PyStr(<<"n", "o", "t", "h", "e", "x">>),
           PyStr(<<"0", "x">>),
           None, PyInt(7), PyOther }

InitDecode ==
    /\ BotOff
    /\ call_fn = "decode_revert_reason"
    /\ call_args \in DecodeInputs
    /\ call_result = NotCalled

DecodeStep ==
    /\ call_fn = "decode_revert_reason"
    /\ call_result = NotCalled
    /\ call_result' = Ret(decode_revert_reason(call_args))
    /\ UNCHANGED <<botVars, call_fn, call_args>>

SpecDecode == InitDecode /\ [][DecodeStep]_vars

(***************************************************************************)
(* C10                                                                     *)
(***************************************************************************)
PayloadOf(x) ==
    IF x.t # "str" THEN Raised
    ELSE FromHex(IF StartsWith(x.s, <<"0", "x">>) THEN Drop(x.s, 2) ELSE x.s)

DeclaredLen(b) == IntFromBytes(SubSeq(b, 37, 68))

\* selector 08c379a0, offset word, length word, then at least `length` string bytes
WellFormedError(x) ==
    /\ ~PayloadOf(x).raised
    /\ LET b == PayloadOf(x).val
       IN  /\ Len(b) >= 68
           /\ SubSeq(b, 1, 4) = ErrorSelector
           /\ Len(b) >= 68 + DeclaredLen(b)

EncodedString(x) ==
    LET b == PayloadOf(x).val IN DecodeBytes(SubSeq(b, 69, 68 + DeclaredLen(b)))

Decoded == call_fn = "decode_revert_reason" /\ call_result # NotCalled

\* C10: decode_revert_reason never raises; on a complete, well-formed Error(string)
\* payload it returns exactly the encoded string, and on every other input
\* (absent, non-hex, short, other selector, cut before the end of the declared
\* string) it returns the empty string.
C10_DecodeOnlyWellFormed ==
    Decoded =>
        /\ ~call_result.raised
        /\ call_result.val =
              IF WellFormedError(call_args) THEN EncodedString(call_args) ELSE <<>>

(***************************************************************************)
(* Inputs of prepare_tx_from_kyoko_txdata.                                 *)
(***************************************************************************)
\* numeric encodings: "0x1a", " 26 ", "zz", and numbers
NumRaw ==
    {None, PyInt(0), PyInt(3), PyStr(<<"0", "x", "1", "a">>),
     PyStr(<<" ", "2", "6", " ">>), PyStr(<<"z", "z">>), PyOther}

AltRaw == {None, PyInt(4)}

NormInputs ==
    { [EmptyDescriptor EXCEPT
         !["to"] = AddrA, !["calldata"] = cd, !["value"] = val,
         !["maxFeePerGas"] = mf, !["max_fee_per_gas"] = mf2,
         !["maxPriorityFeePerGas"] = mp, !["max_priority_fee_per_gas"] = mp2,
         !["gasPrice"] = gp, !["gas_price"] = gp2] :
        cd \in {None, PyStr(<<"0", "x", "1", "2">>)},
        val \in {None, PyStr(<<"0", "x", "1", "a">>), PyStr(<<"z", "z">>)},
        mf \in NumRaw, mf2 \in AltRaw, mp \in NumRaw, mp2 \in AltRaw,
        gp \in NumRaw, gp2 \in AltRaw }

InitNorm ==
    /\ BotOff
    /\ call_fn = "prepare_tx_from_kyoko_txdata"
    /\ call_args \in NormInputs
    /\ call_result = NotCalled

NormStep ==
    /\ call_fn = "prepare_tx_from_kyoko_txdata"
    /\ call_result = NotCalled
    /\ call_result' = Ret(prepare_tx_from_kyoko_txdata(call_args))
    /\ UNCHANGED <<botVars, call_fn, call_args>>

SpecNorm == InitNorm /\ [][NormStep]_vars

(***************************************************************************)
(* C9                                                                      *)
(***************************************************************************)
Normalized == call_fn = "prepare_tx_from_kyoko_txdata" /\ call_result # NotCalled

\* what one fee field of the intent is when it is normalized on its own: the value
\* of the first key that has one, converted; absent when there is none or when it
\* cannot be converted
FieldAlone(d, key, alt) ==
    LET x == Or(d[key], d[alt])
    IN  IF Truthy(x) /\ ~hex_or_int_to_int(x).raised
        THEN PyInt(hex_or_int_to_int(x).val)
        ELSE None

\* C9: the three fee fields are normalized independently: a field that cannot be
\* normalized becomes absent, every other field that holds a valid numeric
\* encoding appears in the intent with its normalized value.
C9_FeeFieldsIndependent ==
    Normalized =>
        LET d == call_args
            out == call_result.val
        IN  /\ out.maxFeePerGas = FieldAlone(d, "maxFeePerGas", "max_fee_per_gas")
            /\ out.maxPriorityFeePerGas =
                   FieldAlone(d, "maxPriorityFeePerGas", "max_priority_fee_per_gas")
            /\ out.gasPrice = FieldAlone(d, "gasPrice", "gas_price")

(***************************************************************************)
(* Inputs of the gas decision.                                             *)
(***************************************************************************)
MaxGas == 6

\* 1.0, 1.2, 1.5, 2.0
Buffers == {<<1, 1>>, <<6, 5>>, <<3, 2>>, <<2, 1>>}

GasInputs ==
    [gas : {None} \cup { PyInt(n) : n \in 0..MaxGas },
     est : {None} \cup { PyInt(n) : n \in 1..MaxGas },
     buffer : Buffers]

InitGas ==
    /\ BotOff
    /\ call_fn = "gas_decision"
    /\ call_args \in GasInputs
    /\ call_result = NotCalled

GasStep ==
    /\ call_fn = "gas_decision"
    /\ call_result = NotCalled
    /\ call_result' = Ret(GasDecision(call_args.gas, call_args.est,
                                      call_args.buffer[1], call_args.buffer[2]))
    /\ UNCHANGED <<botVars, call_fn, call_args>>

SpecGas == InitGas /\ [][GasStep]_vars

(***************************************************************************)
(* C1                                                                      *)
(***************************************************************************)
\* C1: a failure at any stage of an attempt ends only that attempt: no exception
\* leaves execute_swap and ends the run.
C1_FailureEndsOnlyAttempt == pc # "exception_in_execute_swap"

(***************************************************************************)
(* C2, C3, C4: the fee strategy of tx_final                                *)
(***************************************************************************)
Assembled == pc = "send"

\* the value the descriptor supplies for a fee field
Supplied(d, key, alt) == Or(d[key], d[alt])

PositiveNumber(x) ==
    Truthy(x) /\ ~hex_or_int_to_int(x).raised /\ hex_or_int_to_int(x).val > 0

NumberOf(x) == PyInt(hex_or_int_to_int(x).val)

IsEip1559(tx, maxFee, maxPriority) ==
    /\ tx.type = PyInt(2)
    /\ tx.maxFeePerGas = maxFee
    /\ tx.maxPriorityFeePerGas = maxPriority
    /\ tx.gasPrice = None

IsLegacy(tx, price) ==
    /\ tx.type = PyInt(0)
    /\ tx.gasPrice = price
    /\ tx.maxFeePerGas = None
    /\ tx.maxPriorityFeePerGas = None

\* C2: descriptor fees are authoritative: a positive maxFeePerGas and a positive
\* maxPriorityFeePerGas give a type 2 transaction with exactly those values;
\* otherwise a positive gasPrice gives a type 0 transaction with exactly it.
C2_DescriptorFeesAuthoritative ==
    Assembled =>
        LET mf == Supplied(raw_tx, "maxFeePerGas", "max_fee_per_gas")
            mp == Supplied(raw_tx, "maxPriorityFeePerGas", "max_priority_fee_per_gas")
            gp == Supplied(raw_tx, "gasPrice", "gas_price")
        IN  IF PositiveNumber(mf) /\ PositiveNumber(mp)
            THEN /\ tx_final.type = PyInt(2)
                 /\ tx_final.maxFeePerGas = NumberOf(mf)
                 /\ tx_final.maxPriorityFeePerGas = NumberOf(mp)
            ELSE PositiveNumber(gp) =>
                     /\ tx_final.type = PyInt(0)
                     /\ tx_final.gasPrice = NumberOf(gp)

\* C3: a final transaction carries exactly one fee strategy: type 2 with both
\* EIP-1559 fields and no gasPrice, or type 0 with gasPrice and neither field.
C3_ExactlyOneFeeStrategy ==
    Assembled =>
        \/ /\ tx_final.type = PyInt(2)
           /\ tx_final.maxFeePerGas # None
           /\ tx_final.maxPriorityFeePerGas # None
           /\ tx_final.gasPrice = None
        \/ /\ tx_final.type = PyInt(0)
           /\ tx_final.gasPrice # None
           /\ tx_final.maxFeePerGas = None
           /\ tx_final.maxPriorityFeePerGas = None

NoUsableFees(d) ==
    /\ ~(/\ PositiveNumber(Supplied(d, "maxFeePerGas", "max_fee_per_gas"))
         /\ PositiveNumber(Supplied(d, "maxPriorityFeePerGas",
                                    "max_priority_fee_per_gas")))
    /\ ~PositiveNumber(Supplied(d, "gasPrice", "gas_price"))

WithBase(b) == Ret(Block(PyInt(b)))

NoBase == {Ret(Block(Absent)), Ret(Block(None))}

\* the base fee the attempt saw: on the pending block at every read, or on the
\* latest block at every read while the pending block could not be read
BaseFeeSeen(b) ==
    \/ blocks_seen.pending = {WithBase(b)}
    \/ blocks_seen.pending = {Raised} /\ blocks_seen.latest = {WithBase(b)}

NoBaseFeeSeen ==
    \/ blocks_seen.pending # {} /\ blocks_seen.pending \subseteq NoBase
    \/ /\ blocks_seen.pending = {Raised}
       /\ blocks_seen.latest # {}
       /\ blocks_seen.latest \subseteq NoBase \cup {Raised}

\* C4: without usable descriptor fees the strategy comes from the chain: a base fee
\* on the pending block, or on the latest block when the pending block cannot be
\* read, gives EIP-1559 with maxPriorityFeePerGas = 1 gwei and maxFeePerGas =
\* 2 * baseFee + 1 gwei; no detectable base fee gives Legacy with the node's price.
C4_ChainDerivedFees ==
    (Assembled /\ NoUsableFees(raw_tx)) =>
        /\ \A b \in {7} :
              BaseFeeSeen(b) => IsEip1559(tx_final, PyInt(2 * b + GWEI), PyInt(GWEI))
        /\ NoBaseFeeSeen => IsLegacy(tx_final, PyInt(5))

(***************************************************************************)
(* C5: the gas of the final transaction when estimation succeeds           *)
(***************************************************************************)
GasDecided == call_fn = "gas_decision" /\ call_result # NotCalled

\* max(hint, estimate), the hint 0 when absent
LargerOf(args) == Max(IF args.gas = None THEN 0 ELSE args.gas.v, args.est.v)

\* C5 as stated: with an estimate, gas = ceil(max(hint, estimate) * multiplier),
\* never smaller than the product.
C5_GasIsCeil ==
    (GasDecided /\ call_args.est # None) =>
        LET g == call_result.val.v
            prod == LargerOf(call_args) * call_args.buffer[1]
            den == call_args.buffer[2]
        IN  g * den >= prod /\ (g - 1) * den < prod

\* C5 amended: with an estimate, gas = floor(max(hint, estimate) * multiplier): the
\* product is rounded down, so gas is never larger than the product and is smaller
\* than it by less than one.
C5_GasIsFloor ==
    (GasDecided /\ call_args.est # None) =>
        LET g == call_result.val.v
            prod == LargerOf(call_args) * call_args.buffer[1]
            den == call_args.buffer[2]
        IN  g * den <= prod /\ prod < (g + 1) * den

\* an estimate above the hint whose product with 1.2 is not whole
C5_Witness ==
    /\ GasDecided
    /\ call_args.est = PyInt(4)
    /\ call_args.gas = PyInt(3)
    /\ call_args.buffer = <<6, 5>>
    /\ call_result.val = PyInt(4)

(***************************************************************************)
(* C6: no transaction without a gas figure                                 *)
(***************************************************************************)
Estimated == "estimate_gas" \in Calls(trace)

EstimateFailed == Estimated /\ ~Truthy(est_gas)

PositiveHint == Truthy(tx_info.gas) /\ tx_info.gas.v > 0

AfterGasCalls ==
    {"get_transaction_count", "chain_id", "sign_transaction", "send_raw_transaction",
     "wait_for_transaction_receipt"}

\* C6: a transaction is assembled, signed or sent only with a gas figure: when
\* estimation fails and the hint is positive the attempt goes on with the gas
\* derived from the hint; when estimation fails and there is no positive hint the
\* attempt ends in failure with no nonce fetch, no signing and no send.
C6_NoTransactionWithoutGas ==
    /\ (Calls(trace) \cap AfterGasCalls # {} \/ tx_final # None) => Truthy(gas_to_use)
    /\ (EstimateFailed /\ PositiveHint) =>
           /\ gas_to_use = PyInt((tx_info.gas.v * DefaultBufferNum) \div DefaultBufferDen)
           /\ pc = "returned" => "get_transaction_count" \in Calls(trace)
    /\ (EstimateFailed /\ ~PositiveHint) =>
           /\ pc = "returned"
           /\ ok = FALSE
           /\ gas_to_use = None
           /\ tx_final = None
           /\ Calls(trace) \cap AfterGasCalls = {}

\* estimation failed and the descriptor has no gas hint: the attempt has returned
C6_Witness ==
    /\ EstimateFailed
    /\ tx_info.gas = None
    /\ pc = "returned"

(***************************************************************************)
(* C7: eth_call first, and its revert reason wins                          *)
(***************************************************************************)
\* the position of the first call of that name, 0 when there is none
FirstAt(tr, name) ==
    IF name \in Calls(tr)
    THEN CHOOSE k \in 1..Len(tr) : tr[k] = name /\ \A j \in 1..(k - 1) : tr[j] # name
    ELSE 0

\* C7: the simulation runs before the estimation, and a non-empty reason stored by
\* Step A is the reason returned whatever Step B does; Step B sets the reason only
\* when the stored one is empty.
C7_CallReasonWins ==
    /\ [](Estimated =>
            /\ "eth_call" \in Calls(trace)
            /\ FirstAt(trace, "eth_call") < FirstAt(trace, "estimate_gas"))
    /\ [][(pc = "estimate" /\ revert_reason # <<>>) =>
             revert_reason' = revert_reason]_vars
    /\ [][(pc = "estimate" /\ revert_reason' # revert_reason) =>
             (revert_reason = <<>> /\ est_gas' = None)]_vars

\* Step A decoded "no", the estimation failed, and "no" is what is returned
C7_Witness ==
    /\ Estimated
    /\ est_gas = None
    /\ revert_reason = <<"n", "o">>

(***************************************************************************)
(* C8: the destination                                                     *)
(***************************************************************************)
QuoteRead == raw_tx # None

\* a destination field is present when it holds a non-empty value
HasDestination(d, key) == Truthy(d[key])

FirstDestination(d) ==
    IF HasDestination(d, "to") THEN d["to"]
    ELSE IF HasDestination(d, "to_address") THEN d["to_address"]
    ELSE d["toAddress"]

NoDestination(d) ==
    ~HasDestination(d, "to") /\ ~HasDestination(d, "to_address")
    /\ ~HasDestination(d, "toAddress")

\* C8: a descriptor with none of to, to_address, toAddress fails the attempt before
\* any node interaction (no fee query, simulation, estimation, nonce fetch, signing
\* or send) and execute_swap reports failure; otherwise the destination is the
\* first present one in the order to, to_address, toAddress.
C8_MissingDestinationFailsFirst ==
    QuoteRead =>
        IF NoDestination(raw_tx)
        THEN pc = "returned" /\ ok = FALSE /\ trace = <<>> /\ tx_final = None
        ELSE tx_info.to = FirstDestination(raw_tx)

\* a descriptor whose only destination field is an empty "to": the attempt returned
C8_Witness ==
    /\ QuoteRead
    /\ NoDestination(raw_tx)
    /\ raw_tx["to"] = PyStr(<<>>)
    /\ pc = "returned"

(***************************************************************************)
(* C11: the nonce and the chain id of the final transaction                *)
(***************************************************************************)
\* how often the attempt has made that call
Times(tr, name) == Cardinality({ k \in 1..Len(tr) : tr[k] = name })

\* the attempt has built tx_final (lines 352-360)
Built == tx_final # None

\* C11: every final transaction carries a nonce and a chain id read from the node
\* in that same attempt, once each, after the gas decision and before signing; no
\* attempt reuses a nonce of an earlier attempt or counts one up locally: the nonce
\* is the node's transaction count at the time the attempt assembles.
C11_NonceReadFresh ==
    /\ [](Built =>
            /\ Times(trace, "get_transaction_count") = 1
            /\ Times(trace, "chain_id") = 1
            /\ gas_to_use # None
            /\ Estimated
            /\ FirstAt(trace, "estimate_gas") < FirstAt(trace, "get_transaction_count")
            /\ FirstAt(trace, "get_transaction_count") < FirstAt(trace, "chain_id")
            /\ ("sign_transaction" \in Calls(trace) =>
                   FirstAt(trace, "chain_id") < FirstAt(trace, "sign_transaction")))
    /\ [][(pc = "assemble" /\ tx_final' # None) =>
             /\ tx_final'.nonce = PyInt(chainNonce)
             /\ tx_final'.chainId = PyInt(1)]_vars
    /\ [](pc = "send" => tx_final.nonce = PyInt(chainNonce))
    /\ [][pc = "returned" => (tx_final' = None /\ trace' = <<>>)]_vars

\* the second attempt, after the first one sent a transaction and another one was
\* signed elsewhere: its final transaction carries the count 2
C11_Witness ==
    /\ pc = "send"
    /\ i = 1
    /\ chainNonce = 2
    /\ tx_final.nonce = PyInt(2)

(***************************************************************************)
(* C12: the dry run                                                        *)
(***************************************************************************)
Broadcasts == {"sign_transaction", "send_raw_transaction",
               "wait_for_transaction_receipt"}

\* C12: once the dry-run flag is true it stays true; while it is true no attempt
\* calls sign_transaction, send_raw_transaction or wait_for_transaction_receipt,
\* and every attempt that reaches the assembly of the final transaction goes
\* through it and returns success.
C12_DryRunNeverBroadcasts ==
    [][/\ DRY_RUN => DRY_RUN'
       /\ DRY_RUN' => Calls(trace') \cap Broadcasts = {}
       /\ (DRY_RUN /\ pc = "assemble") => pc' = "send"
       /\ (DRY_RUN /\ pc = "send") => (pc' = "returned" /\ ok' = TRUE)]_vars

====
